---------------------------- MODULE Spec2Model ----------------------------
(***************************************************************************)
(* Model of mmdet/models/anchor_heads/ttf_head.py: the target generator    *)
(* (TTFTargetGenerator), the gaussian rasterizer, the loss computer's      *)
(* cached location grid (TTFLoss) and the decoder (TTFHead.get_bboxes).    *)
(*                                                                         *)
(* Numbers.  Box coordinates are integers (pixels).  Heatmap and score     *)
(* values are fixed-point integers in units of 1/Scale.  An area weight    *)
(* (log, sqrt or raw area) is kept as the pair of the function and its     *)
(* argument; a WeightMap value g * aw / div is kept as that triple, and    *)
(* 0/0 is NaN.                                                             *)
(***************************************************************************)
EXTENDS Integers, Sequences, FiniteSets, TLC

\* ------------------------------------------------------------------ bounds
MaxBoxes == 2        \* ground-truth boxes per image
NumFg == 2           \* foreground classes (num_classes - 1)
OutputH == 5         \* feature-grid height of the target generator
OutputW == 5         \* feature-grid width of the target generator

\* --------------------------------------------------------------- constants
DownRatio == 4           \* down_ratio
HmCenterRatioPct == 27   \* hm_center_ratio = 0.27
CenterRatioPct == 20     \* center_ratio = 0.2
Scale == 100 * 100       \* fixed-point unit of heatmap and score values

\* ----------------------------------------------------------------- numbers
Min(a, b) == IF a < b THEN a ELSE b
Max(a, b) == IF a > b THEN a ELSE b
Abs(a) == IF a < 0 THEN -a ELSE a

\* x.to(torch.int) / int(x) / .int(): truncation toward zero of n/d, d > 0
TruncDiv(n, d) == IF n >= 0 THEN n \div d ELSE -((-n) \div d)

\* torch.round of n/d, d > 0: to nearest, halves to even
RoundHalfEven(n, d) ==
    LET f == n \div d
        r2 == 2 * (n % d)
    IN  IF r2 < d THEN f
        ELSE IF r2 > d THEN f + 1
        ELSE IF f % 2 = 0 THEN f ELSE f + 1

\* torch.clamp(x, min=lo, max=hi)
Clamp(x, lo, hi) == Min(Max(x, lo), hi)

\* the indices a[start:stop] selects in a dimension of length n
\* (Python slicing: a negative bound counts from the end, bounds are clipped)
PySliceBound(i, n) == IF i < 0 THEN Max(i + n, 0) ELSE Min(i, n)
PySlice(start, stop, n) == PySliceBound(start, n) .. (PySliceBound(stop, n) - 1)

\* exp(-t) in fixed point, t = tf/Scale >= 0: eight terms of the series at
\* t/16, then four squarings
ExpSeries(u) ==
    LET c1 == u
        c2 == (c1 * u) \div (Scale * 2)
        c3 == (c2 * u) \div (Scale * 3)
        c4 == (c3 * u) \div (Scale * 4)
        c5 == (c4 * u) \div (Scale * 5)
        c6 == (c5 * u) \div (Scale * 6)
    IN  Scale - c1 + c2 - c3 + c4 - c5 + c6
Sq(x) == (x * x) \div Scale
ExpNeg(tf) == IF tf > 20 * Scale THEN 0 ELSE Sq(Sq(Sq(Sq(ExpSeries(tf \div 16)))))


\* ------------------------------------------------------------- 2-D arrays
\* A 2-D array is a function of rows of functions of columns, indexed from 0.
Height(a) == Cardinality(DOMAIN a)
Width(a) == IF DOMAIN a = {} THEN 0 ELSE Cardinality(DOMAIN a[0])
Full(height, width, v) == [r \in 0..(height - 1) |-> [c \in 0..(width - 1) |-> v]]

\* ------------------------------------------------------ gaussian rasterizer
\* gaussian_2d(shape, sigma_x, sigma_y) with sigma_x = sx6/6, sigma_y = sy6/6:
\* entry [i][j] is exp(-(x*x/(2 sigma_x^2) + y*y/(2 sigma_y^2))) at
\* y = i - m, x = j - n; values below eps * max (eps = 2^-52, max = 1) are
\* zeroed, every other value is a positive float.
gaussian_2d(h, w, sx6, sy6) ==
    LET m == (h - 1) \div 2
        n == (w - 1) \div 2
    IN  [i \in 0..(h - 1) |-> [j \in 0..(w - 1) |->
            LET y == i - m
                x == j - n
                tf == (18 * (x * x * sy6 * sy6 + y * y * sx6 * sx6) * Scale)
                        \div (sx6 * sx6 * sy6 * sy6)
            IN  IF tf > 36 * Scale THEN 0 ELSE Max(1, ExpNeg(tf))]]

\* mutant of MaxCombine: the kernel overwrites the grid
MaxCombineOverwrite(old, g, k) == g * k

\* torch.max(masked_heatmap, masked_gaussian * k, out=masked_heatmap)
MaxCombine(old, g, k) == Max(old, g * k)

\* draw_truncate_gaussian(heatmap, center, h_radius, w_radius, k): the grid
\* after the call, and whether torch.max raised on views of unequal shape.
draw_truncate_gaussian(heatmap, center, h_radius, w_radius, k) ==
    LET h == 2 * h_radius + 1
        w == 2 * w_radius + 1
        gaussian == gaussian_2d(h, w, w, h)
        x == center[1]
        y == center[2]
        height == Height(heatmap)
        width == Width(heatmap)
        left == Min(x, w_radius)
        right == Min(width - x, w_radius + 1)
        top == Min(y, h_radius)
        bottom == Min(height - y, h_radius + 1)
        hm_rows == PySlice(y - top, y + bottom, height)
        hm_cols == PySlice(x - left, x + right, width)
        g_rows == PySlice(h_radius - top, h_radius + bottom, h)
        g_cols == PySlice(w_radius - left, w_radius + right, w)
        r0 == PySliceBound(y - top, height)
        c0 == PySliceBound(x - left, width)
        gr0 == PySliceBound(h_radius - top, h)
        gc0 == PySliceBound(w_radius - left, w)
        nonempty == /\ g_rows # {} /\ g_cols # {}
                    /\ hm_rows # {} /\ hm_cols # {}
        sameshape == /\ Cardinality(hm_rows) = Cardinality(g_rows)
                     /\ Cardinality(hm_cols) = Cardinality(g_cols)
    IN  IF ~nonempty THEN [heatmap |-> heatmap, raised |-> FALSE]
        ELSE IF ~sameshape THEN [heatmap |-> heatmap, raised |-> TRUE]
        ELSE [heatmap |->
                [r \in DOMAIN heatmap |-> [c \in DOMAIN heatmap[r] |->
                    IF r \in hm_rows /\ c \in hm_cols
                    THEN MaxCombine(heatmap[r][c],
                                    gaussian[gr0 + (r - r0)][gc0 + (c - c0)], k)
                    ELSE heatmap[r][c]]],
              raised |-> FALSE]

\* --------------------------------------------------------- area utilities
\* bbox_areas: width x height of a box <<x1, y1, x2, y2>>
bbox_areas(b) == (b[3] - b[1]) * (b[4] - b[2])

\* An area metric is f(arg): fn names f.
Metric(fn, arg) == [fn |-> fn, arg |-> arg]
\* lines 371-376: .log(), .sqrt() or the raw area; 'norm' takes the else branch
AreaMetric(mode, area) ==
    IF mode = "log" THEN Metric("log", area)
    ELSE IF mode = "sqrt" THEN Metric("sqrt", area)
    ELSE Metric("id", area)
\* a >= b for two metrics of one mode (log and sqrt increase on areas > 0)
MetricGeq(a, b) == a.arg >= b.arg

\* calc_region(box, r): the box shrunk toward its center by the fraction r on
\* each side, r = rpct/100; the four coordinates as numerators over 100.
calc_region(b, rpct) ==
    << (100 - rpct) * b[1] + rpct * b[3],
       (100 - rpct) * b[2] + rpct * b[4],
       rpct * b[1] + (100 - rpct) * b[3],
       rpct * b[2] + (100 - rpct) * b[4] >>


\* ------------------------------------------------------------------ state
VARIABLES
    \* TTFTargetGenerator: configuration
    wh_area_process, wh_agnostic, wh_heatmap,
    \* target_single_image: arguments as passed, and the locals
    in_boxes, in_labels, gt_boxes, gt_labels,
    boxes_areas_log, boxes_area_topk_log, boxes_ind,
    heatmap, fake_heatmap, box_target, wh_weight, box_target_inds,
    k, pc,
    \* draw_truncate_gaussian called on its own: the grid before and after the
    \* call, the arguments <<x, y, h_radius, w_radius, k>>, whether it raised
    grid_old, grid, draw_args, draw_raised, draw_done,
    \* TTFHead: wh_agnostic, the test configuration, the order torch.topk
    \* gives equal values, and the prediction tensors the caller holds
    \* (forward's outputs for the logits of logit_pattern on feat_shape)
    head_wh_agnostic, test_cfg, topk_ties,
    logit_pattern, feat_shape, pred_hm, pred_wh,
    \* TTFLoss.base_loc, and what the last call of TTFLoss.__call__ and of
    \* get_bboxes gave
    base_loc, loss_out, result_list, get_raised,
    last_op, calls,
    \* TTFHead._topk called on its own for one image: the score map
    \* [class][row][col], topk, whether torch.topk raised, and the result
    tk_scores, tk_topk, tk_raised, tk_out, tk_done

tgVars == << wh_area_process, wh_agnostic, wh_heatmap, in_boxes, in_labels,
             gt_boxes, gt_labels, boxes_areas_log, boxes_area_topk_log,
             boxes_ind, heatmap, fake_heatmap, box_target, wh_weight,
             box_target_inds, k, pc >>
gaussVars == << grid_old, grid, draw_args, draw_raised, draw_done >>
headVars == << head_wh_agnostic, test_cfg, topk_ties, logit_pattern, feat_shape,
               pred_hm, pred_wh, base_loc, loss_out, result_list, get_raised,
               last_op, calls >>
topkVars == << tk_scores, tk_topk, tk_raised, tk_out, tk_done >>
vars == << tgVars, gaussVars, headVars, topkVars >>

\* ------------------------------------------------------- target generator
AreaModes == {"none", "norm", "log", "sqrt"}

\* wh_planes: 4 if wh_agnostic, else 4 * num_fg (lines 51-53)
WhPlanes(agnostic) == IF agnostic THEN 4 ELSE 4 * NumFg

\* WeightMap values: g * aw / div; 0/0 is NaN
ZeroMetric == Metric("id", 0)
ZeroWeight == [nan |-> FALSE, g |-> 0, aw |-> ZeroMetric, div |-> 1]
NaNWeight == [nan |-> TRUE, g |-> 0, aw |-> ZeroMetric, div |-> 0]
\* mutant of WeightValue: the division by ct_div is dropped
WeightValueUndivided(g, aw, ct_div) ==
    [nan |-> FALSE, g |-> g, aw |-> aw, div |-> 1]

\* local_heatmap * boxes_area_topk_log[k] / ct_div (lines 432-438)
WeightValue(g, aw, ct_div) ==
    IF ct_div = 0 THEN NaNWeight
    ELSE [nan |-> FALSE, g |-> g, aw |-> aw, div |-> ct_div]

\* lines 366-369: the freshly allocated maps
NewHeatmap == [c \in 0..(NumFg - 1) |-> Full(OutputH, OutputW, 0)]
NewFakeHeatmap == Full(OutputH, OutputW, 0)
\* mutant of NewBoxTarget: allocated as zeros
NewBoxTargetZeros(agnostic) ==
    [s \in 0..((WhPlanes(agnostic) \div 4) - 1) |->
        Full(OutputH, OutputW, << 0, 0, 0, 0 >>)]

\* box_target[s][r][c] is the tuple of the planes 4s .. 4s+3 at cell (r, c)
NoTarget == << -1, -1, -1, -1 >>
NewBoxTarget(agnostic) ==
    [s \in 0..((WhPlanes(agnostic) \div 4) - 1) |-> Full(OutputH, OutputW, NoTarget)]
NewWhWeight(agnostic) ==
    [s \in 0..((WhPlanes(agnostic) \div 4) - 1) |-> Full(OutputH, OutputW, ZeroWeight)]

\* mutant of TopkOrdered: smallest first
TopkOrderedAscending(keys, ind) ==
    \A i \in 1..(Len(ind) - 1) : MetricGeq(keys[ind[i + 1] + 1], keys[ind[i] + 1])

\* line 377: torch.topk(boxes_areas_log, n) orders the keys largest first
TopkOrdered(keys, ind) ==
    \A i \in 1..(Len(ind) - 1) : MetricGeq(keys[ind[i] + 1], keys[ind[i + 1] + 1])

Perms(n) == { f \in [1..n -> 0..(n - 1)] :
                \A i, j \in 1..n : i # j => f[i] # f[j] }

\* lines 385-389, 399-400: a radius, from the box extent on the grid clamped
\* to [0, size - 1]; lo and hi in pixels
Radius(lo, hi, size) ==
    LET flo == Clamp(lo, 0, DownRatio * (size - 1))
        fhi == Clamp(hi, 0, DownRatio * (size - 1))
    IN  TruncDiv((fhi - flo) * HmCenterRatioPct, 100 * DownRatio)
h_radius(b) == Radius(b[2], b[4], OutputH)
w_radius(b) == Radius(b[1], b[3], OutputW)

\* lines 395-397: the center cell <<x, y>>
ct_int(b) == << TruncDiv(b[1] + b[3], 2 * DownRatio),
                TruncDiv(b[2] + b[4], 2 * DownRatio) >>

\* lines 391, 403-409: the center region on the grid, rounded, clamped above
CtrClamp(v, size) == Min(v, size - 1)
CtrRegion(b) ==
    LET r1pct == (100 - CenterRatioPct) \div 2
        reg == calc_region(b, r1pct)
    IN  << CtrClamp(RoundHalfEven(reg[1], 100 * DownRatio), OutputW),
           CtrClamp(RoundHalfEven(reg[2], 100 * DownRatio), OutputH),
           CtrClamp(RoundHalfEven(reg[3], 100 * DownRatio), OutputW),
           CtrClamp(RoundHalfEven(reg[4], 100 * DownRatio), OutputH) >>

\* lines 416-418: the scratch grid of a box, zeroed and drawn into
FakeHeatmapOf(b) ==
    draw_truncate_gaussian(NewFakeHeatmap, ct_int(b), h_radius(b), w_radius(b), 1)

\* lines 421-425: box_target_inds, the set of cells <<row, col>> of the mask
BoxTargetInds(b, use_heatmap, fake) ==
    IF use_heatmap
    THEN { rc \in (0..(OutputH - 1)) \X (0..(OutputW - 1)) : fake[rc[1]][rc[2]] > 0 }
    ELSE LET ctr == CtrRegion(b)
         IN  PySlice(ctr[2], ctr[4] + 1, OutputH) \X PySlice(ctr[1], ctr[3] + 1, OutputW)

RECURSIVE SumCells(_, _)
SumCells(a, cells) ==
    IF cells = {} THEN 0
    ELSE LET rc == CHOOSE x \in cells : TRUE
         IN  a[rc[1]][rc[2]] + SumCells(a, cells \ {rc})

\* lines 427-430: the planes of box_target a box of class cls_id writes are
\* all four (agnostic) or cls_id * 4 .. (cls_id + 1) * 4 - 1: this slice
TargetSlice(agnostic, cls_id) == IF agnostic THEN 0 ELSE cls_id
\* lines 436-438: the slice of wh_weight
WeightSlice(agnostic, cls_id) == IF agnostic THEN 0 ELSE cls_id


\* Ground-truth boxes <<left, top, right, bottom>> in pixels, left < right and
\* top < bottom: inside the image, one pixel wide, reaching over the top
\* border (negative coordinates) and over the right border.
BoxPool == { <<0, 0, 20, 20>>, <<4, 4, 16, 16>>, <<8, 8, 12, 12>>,
             <<6, 2, 7, 18>>, <<8, -12, 12, 2>>, <<12, 0, 28, 8>> }

\* The per-box values of an iteration depend on the box and the configuration
\* only: they are tabulated once per box of the pool.
DrawnOf == [b \in BoxPool |-> FakeHeatmapOf(b)]
IndsOf == [b \in BoxPool |-> [hm \in BOOLEAN |->
                BoxTargetInds(b, hm, DrawnOf[b].heatmap)]]
CtDivOf == [b \in BoxPool |-> [hm \in BOOLEAN |->
                SumCells(DrawnOf[b].heatmap, IndsOf[b][hm])]]

SeqsUpTo(S, n) == UNION { [1..m -> S] : m \in 0..n }

\* the parts of the state a specification does not exercise
GaussIdle ==
    /\ grid_old = << >>
    /\ grid = << >>
    /\ draw_args = << >>
    /\ draw_raised = FALSE
    /\ draw_done = FALSE
NoBaseLoc == [none |-> TRUE, shift_x |-> << >>, shift_y |-> << >>]
NoLossOut == [raised |-> FALSE, pred_boxes |-> << >>]
HeadIdle ==
    /\ head_wh_agnostic = FALSE
    /\ test_cfg = << >>
    /\ topk_ties = "low"
    /\ logit_pattern = << >>
    /\ feat_shape = << 0, 0 >>
    /\ pred_hm = << >>
    /\ pred_wh = << >>
    /\ base_loc = NoBaseLoc
    /\ loss_out = NoLossOut
    /\ result_list = << >>
    /\ get_raised = FALSE
    /\ last_op = "none"
    /\ calls = 0
TopkIdle ==
    /\ tk_scores = << >>
    /\ tk_topk = 0
    /\ tk_raised = FALSE
    /\ tk_out = << >>
    /\ tk_done = FALSE
TargetIdle ==
    /\ wh_area_process = "none"
    /\ wh_agnostic = FALSE
    /\ wh_heatmap = FALSE
    /\ in_boxes = << >>
    /\ in_labels = << >>
    /\ gt_boxes = << >>
    /\ gt_labels = << >>
    /\ boxes_areas_log = << >>
    /\ boxes_area_topk_log = << >>
    /\ boxes_ind = << >>
    /\ heatmap = << >>
    /\ fake_heatmap = << >>
    /\ box_target = << >>
    /\ wh_weight = << >>
    /\ box_target_inds = {}
    /\ k = 0
    /\ pc = "idle"

\* target_single_image is entered: the maps are allocated (lines 363-369)
InitTarget ==
    /\ wh_area_process \in AreaModes
    /\ wh_agnostic \in BOOLEAN
    /\ wh_heatmap \in BOOLEAN
    /\ in_boxes \in SeqsUpTo(BoxPool, MaxBoxes)
    /\ in_labels \in [1..Len(in_boxes) -> 1..NumFg]
    /\ gt_boxes = in_boxes
    /\ gt_labels = in_labels
    /\ boxes_areas_log = << >>
    /\ boxes_area_topk_log = << >>
    /\ boxes_ind = << >>
    /\ heatmap = NewHeatmap
    /\ fake_heatmap = NewFakeHeatmap
    /\ box_target = NewBoxTarget(wh_agnostic)
    /\ wh_weight = NewWhWeight(wh_agnostic)
    /\ box_target_inds = {}
    /\ k = 0
    /\ pc = "sort"
    /\ GaussIdle
    /\ HeadIdle
    /\ TopkIdle

\* mutant of NormOverride: the override is skipped
NormOverrideSkipped(mode, topk_log) == topk_log

\* line 379-380: boxes_area_topk_log[:] = 1. under 'norm'
NormOverride(mode, topk_log) ==
    IF mode = "norm" THEN [i \in DOMAIN topk_log |-> Metric("id", 1)] ELSE topk_log

\* lines 371-383: the area metrics, the order largest first (ties in any
\* order torch.topk may give), the reordered boxes and labels
SortBoxes ==
    /\ pc = "sort"
    /\ LET keys == [i \in 1..Len(gt_boxes) |->
                        AreaMetric(wh_area_process, bbox_areas(gt_boxes[i]))]
       IN  /\ boxes_areas_log' = keys
           /\ \E ind \in Perms(Len(gt_boxes)) :
                /\ TopkOrdered(keys, ind)
                /\ boxes_ind' = ind
                /\ boxes_area_topk_log' =
                     NormOverride(wh_area_process,
                                  [i \in 1..Len(ind) |-> keys[ind[i] + 1]])
                /\ gt_boxes' = [i \in 1..Len(ind) |-> gt_boxes[ind[i] + 1]]
                /\ gt_labels' = [i \in 1..Len(ind) |-> gt_labels[ind[i] + 1]]
    /\ pc' = "loop"
    /\ UNCHANGED << wh_area_process, wh_agnostic, wh_heatmap, in_boxes, in_labels,
                    heatmap, fake_heatmap, box_target, wh_weight,
                    box_target_inds, k >>
    /\ UNCHANGED << gaussVars, headVars, topkVars >>

\* lines 412-438: one iteration of the loop, for box k
ProcessBox ==
    /\ pc = "loop"
    /\ k < Len(boxes_ind)
    /\ LET b == gt_boxes[k + 1]
           cls_id == gt_labels[k + 1] - 1
           drawn == DrawnOf[b]
           fake == drawn.heatmap
           inds == IndsOf[b][wh_heatmap]
           ct_div == CtDivOf[b][wh_heatmap]
           aw == boxes_area_topk_log[k + 1]
           tslice == TargetSlice(wh_agnostic, cls_id)
           slice == WeightSlice(wh_agnostic, cls_id)
       IN  /\ fake_heatmap' = fake
           /\ heatmap' = [heatmap EXCEPT ![cls_id] =
                            [r \in DOMAIN fake |-> [c \in DOMAIN fake[r] |->
                                Max(heatmap[cls_id][r][c], fake[r][c])]]]
           /\ box_target_inds' = inds
           /\ box_target' = [box_target EXCEPT ![tslice] =
                            [r \in DOMAIN fake |-> [c \in DOMAIN fake[r] |->
                                IF <<r, c>> \in inds THEN b
                                ELSE box_target[tslice][r][c]]]]
           /\ wh_weight' = [wh_weight EXCEPT ![slice] =
                            [r \in DOMAIN fake |-> [c \in DOMAIN fake[r] |->
                                IF <<r, c>> \in inds
                                THEN WeightValue(fake[r][c], aw, ct_div)
                                ELSE wh_weight[slice][r][c]]]]
           /\ pc' = IF drawn.raised THEN "raised" ELSE "loop"
    /\ k' = k + 1
    /\ UNCHANGED << wh_area_process, wh_agnostic, wh_heatmap, in_boxes, in_labels,
                    gt_boxes, gt_labels, boxes_areas_log, boxes_area_topk_log,
                    boxes_ind >>
    /\ UNCHANGED << gaussVars, headVars, topkVars >>

\* line 440: return heatmap, box_target, wh_weight
ReturnTargets ==
    /\ pc = "loop"
    /\ k = Len(boxes_ind)
    /\ pc' = "done"
    /\ UNCHANGED << wh_area_process, wh_agnostic, wh_heatmap, in_boxes, in_labels,
                    gt_boxes, gt_labels, boxes_areas_log, boxes_area_topk_log,
                    boxes_ind, heatmap, fake_heatmap, box_target, wh_weight,
                    box_target_inds, k >>
    /\ UNCHANGED << gaussVars, headVars, topkVars >>

NextTarget == SortBoxes \/ ProcessBox \/ ReturnTargets

SpecTarget == InitTarget /\ [][NextTarget]_vars


\* ---------------------------------------------- target generator: claims
GridCells == (0..(OutputH - 1)) \X (0..(OutputW - 1))
Slices == DOMAIN box_target
InputIdx == 1..Len(in_boxes)

\* the positive region of input box i and the slice it writes
RegionOfInput(i) == IndsOf[in_boxes[i]][wh_heatmap]
SliceOfInput(i) == IF wh_agnostic THEN 0 ELSE in_labels[i] - 1
\* the input boxes whose positive region holds cell rc of slice s
Covering(s, rc) == { i \in InputIdx : SliceOfInput(i) = s /\ rc \in RegionOfInput(i) }
\* the area weight of input box i: 1.0 under 'norm', else log, sqrt or raw area
AreaWeightOfInput(i) ==
    IF wh_area_process = "norm" THEN Metric("id", 1)
    ELSE Metric(IF wh_area_process \in {"log", "sqrt"} THEN wh_area_process ELSE "id",
                (in_boxes[i][3] - in_boxes[i][1]) * (in_boxes[i][4] - in_boxes[i][2]))
\* the weight the iteration of input box i computes for cell rc
WeightOfInput(i, rc) ==
    LET b == in_boxes[i]
        S == CtDivOf[b][wh_heatmap]
    IN  IF S = 0 THEN NaNWeight
        ELSE [nan |-> FALSE, g |-> DrawnOf[b].heatmap[rc[1]][rc[2]],
              aw |-> AreaWeightOfInput(i), div |-> S]
AreaOfInput(i) == (in_boxes[i][3] - in_boxes[i][1]) * (in_boxes[i][4] - in_boxes[i][2])

\* C1: after target_single_image, at every cell of a slice that lies in the
\* positive regions of several boxes writing to that slice, the box of
\* strictly smallest area among them holds the cell: BoxTargetMap is its
\* (left, top, right, bottom) and WeightMap is the value computed for it,
\* whatever the input order.
C1_SmallerBoxWins ==
    pc = "done" =>
        \A s \in Slices : \A rc \in GridCells : \A i \in Covering(s, rc) :
            (\A j \in Covering(s, rc) \ {i} : AreaOfInput(j) > AreaOfInput(i))
            => /\ box_target[s][rc[1]][rc[2]] = in_boxes[i]
               /\ wh_weight[s][rc[1]][rc[2]] = WeightOfInput(i, rc)

\* C1 witness: two boxes of different areas with the same non-empty positive
\* region and slice, the smaller one given first, and the call has returned.
C1_Witness ==
    /\ pc = "done"
    /\ Len(in_boxes) = 2
    /\ AreaOfInput(1) < AreaOfInput(2)
    /\ SliceOfInput(1) = SliceOfInput(2)
    /\ RegionOfInput(1) = RegionOfInput(2)
    /\ Cardinality(RegionOfInput(1)) > 1
    /\ \A rc \in RegionOfInput(1) :
            box_target[SliceOfInput(1)][rc[1]][rc[2]] = in_boxes[1]

\* C2: with zero ground-truth boxes the returned heatmap is 0 everywhere,
\* BoxTargetMap is -1 on every plane and WeightMap is 0, in every
\* configuration.
C2_EmptyImage ==
    (pc = "done" /\ Len(in_boxes) = 0) =>
        /\ DOMAIN heatmap = 0..(NumFg - 1)
        /\ \A c \in DOMAIN heatmap : \A rc \in GridCells : heatmap[c][rc[1]][rc[2]] = 0
        /\ DOMAIN box_target = 0..((IF wh_agnostic THEN 1 ELSE NumFg) - 1)
        /\ \A s \in Slices : \A rc \in GridCells :
                /\ box_target[s][rc[1]][rc[2]] = << -1, -1, -1, -1 >>
                /\ ~wh_weight[s][rc[1]][rc[2]].nan
                /\ wh_weight[s][rc[1]][rc[2]].g = 0

\* C2 witness: the call returned for an image without boxes, per-class
\* regression, heatmap mask, mode 'log'.
C2_Witness ==
    /\ pc = "done"
    /\ Len(in_boxes) = 0
    /\ wh_area_process = "log"
    /\ ~wh_agnostic
    /\ wh_heatmap

\* the box processed last, its slice of wh_weight, area weight and mass S
LastBox == gt_boxes[k]
LastSlice == IF wh_agnostic THEN 0 ELSE gt_labels[k] - 1
LastAreaWeight == boxes_area_topk_log[k]
LastMass == CtDivOf[LastBox][wh_heatmap]
JustProcessed == pc = "loop" /\ k >= 1

\* the WeightMap values g * aw / div over the cells sum to aw: the cells hold
\* numbers with that aw and a common div, and their g sum to div (an empty
\* sum is 0)
IsZeroMetric(m) == (m.fn \in {"id", "sqrt"} /\ m.arg = 0) \/ (m.fn = "log" /\ m.arg = 1)
RECURSIVE SumG(_, _)
SumG(w, cells) ==
    IF cells = {} THEN 0
    ELSE LET rc == CHOOSE x \in cells : TRUE
         IN  w[rc[1]][rc[2]].g + SumG(w, cells \ {rc})
WeightsSumTo(w, cells, aw) ==
    IF cells = {} THEN IsZeroMetric(aw)
    ELSE /\ \A rc \in cells : /\ ~w[rc[1]][rc[2]].nan
                              /\ w[rc[1]][rc[2]].aw = aw
         /\ \E d \in { w[rc[1]][rc[2]].div : rc \in cells } :
                /\ \A rc \in cells : w[rc[1]][rc[2]].div = d
                /\ SumG(w, cells) = d

\* C3 as stated: right after box k is processed, the WeightMap values over
\* its positive region sum to its area weight, which is 1.0 under 'norm'.
C3_RegionSumIsAreaWeight ==
    JustProcessed =>
        /\ WeightsSumTo(wh_weight[LastSlice], box_target_inds, LastAreaWeight)
        /\ wh_area_process = "norm" => LastAreaWeight = Metric("id", 1)

\* C3 amended: the same, for a box whose local gaussian mass S is not 0.
C3_RegionSumIsAreaWeightWhenMass ==
    (JustProcessed /\ LastMass # 0) =>
        /\ WeightsSumTo(wh_weight[LastSlice], box_target_inds, LastAreaWeight)
        /\ LastAreaWeight =
             (IF wh_area_process = "norm" THEN Metric("id", 1)
              ELSE IF wh_area_process = "none" THEN Metric("id", bbox_areas(LastBox))
              ELSE Metric(wh_area_process, bbox_areas(LastBox)))

\* C3 witness: a box with nonzero mass and a positive region of several
\* cells with different gaussian values has just been processed under 'norm'.
C3_Witness ==
    /\ JustProcessed
    /\ LastMass # 0
    /\ wh_area_process = "norm"
    /\ \E a, b \in box_target_inds :
            fake_heatmap[a[1]][a[2]] # fake_heatmap[b[1]][b[2]]

AllFinite(w) == \A s \in DOMAIN w : \A rc \in GridCells : ~w[s][rc[1]][rc[2]].nan

\* C4: an iteration for a box whose local gaussian mass S is 0 (or whose
\* positive region is empty) leaves WeightMap as it was, and every WeightMap
\* value is finite when the call returns.
C4_ZeroMassSkipsWeightWrite ==
    [][ /\ (pc = "loop" /\ k < Len(boxes_ind)
              /\ CtDivOf[gt_boxes[k + 1]][wh_heatmap] = 0)
           => wh_weight' = wh_weight
        /\ pc' = "done" => AllFinite(wh_weight') ]_vars

\* C7 as stated: under 'norm' the area metric of every box is 1.0 for
\* prioritization (the keys torch.topk orders) as well as for weighting.
C7_NormMetricIsOneEverywhere ==
    (pc # "sort" /\ wh_area_process = "norm") =>
        \A i \in InputIdx : /\ boxes_areas_log[i] = Metric("id", 1)
                            /\ boxes_area_topk_log[i] = Metric("id", 1)

\* C7 amended: under 'norm' every area weight is 1.0, while the boxes are
\* still ordered by raw area, largest first, so a cell shared by boxes of one
\* slice keeps the BoxTargetMap values of the box of strictly smallest area.
C7_NormWeightsOneOrderByArea ==
    (pc # "sort" /\ wh_area_process = "norm") =>
        /\ \A i \in InputIdx : /\ boxes_area_topk_log[i] = Metric("id", 1)
                               /\ boxes_areas_log[i] = Metric("id", AreaOfInput(i))
        /\ \A i \in 1..(Len(gt_boxes) - 1) :
                bbox_areas(gt_boxes[i]) >= bbox_areas(gt_boxes[i + 1])
        /\ pc = "done" =>
             \A s \in Slices : \A rc \in GridCells : \A i \in Covering(s, rc) :
                (\A j \in Covering(s, rc) \ {i} : AreaOfInput(j) > AreaOfInput(i))
                => box_target[s][rc[1]][rc[2]] = in_boxes[i]

\* C7 witness: under 'norm', two boxes of different areas share a cell of
\* one slice, the smaller given first, and the call has returned.
C7_Witness ==
    /\ pc = "done"
    /\ wh_area_process = "norm"
    /\ Len(in_boxes) = 2
    /\ AreaOfInput(1) < AreaOfInput(2)
    /\ SliceOfInput(1) = SliceOfInput(2)
    /\ RegionOfInput(1) \cap RegionOfInput(2) # {}

\* the center-shrink region of a box on the grid, rounded, with both bounds
\* of each axis clamped to [0, size - 1]
ClampedRegionCells(b) ==
    LET r1pct == (100 - CenterRatioPct) \div 2
        x1 == Clamp(RoundHalfEven((100 - r1pct) * b[1] + r1pct * b[3], 100 * DownRatio),
                    0, OutputW - 1)
        y1 == Clamp(RoundHalfEven((100 - r1pct) * b[2] + r1pct * b[4], 100 * DownRatio),
                    0, OutputH - 1)
        x2 == Clamp(RoundHalfEven(r1pct * b[1] + (100 - r1pct) * b[3], 100 * DownRatio),
                    0, OutputW - 1)
        y2 == Clamp(RoundHalfEven(r1pct * b[2] + (100 - r1pct) * b[4], 100 * DownRatio),
                    0, OutputH - 1)
    IN  (y1..y2) \X (x1..x2)

\* C8: with wh_heatmap disabled, the cells an iteration writes to
\* BoxTargetMap and WeightMap are exactly those of the box's center-shrink
\* region clamped to [0, W-1] x [0, H-1], also for negative coordinates.
C8_RegionClampedBothSides ==
    (JustProcessed /\ ~wh_heatmap) =>
        /\ box_target_inds = ClampedRegionCells(LastBox)
        /\ \A rc \in ClampedRegionCells(LastBox) :
                box_target[LastSlice][rc[1]][rc[2]] = LastBox


\* ------------------------------------------- gaussian rasterizer, directly
MaxGrid == 3         \* grids of 1..MaxGrid rows and columns
MaxRadius == 2       \* h_radius, w_radius in 0..MaxRadius
MaxK == 2            \* amplitude k in 1..MaxK
Margin == 3          \* centers from Margin cells before the grid to Margin after

\* grids a call may find: flat at a value, or a checkerboard
OldGrids(height, width) ==
    { Full(height, width, v) : v \in {0, Scale \div 2, 2 * Scale} }
    \cup { [r \in 0..(height - 1) |-> [c \in 0..(width - 1) |->
                IF (r + c) % 2 = 0 THEN Scale \div 4 ELSE Scale]] }

InitGauss ==
    /\ \E height \in 1..MaxGrid, width \in 1..MaxGrid :
            grid \in OldGrids(height, width)
    /\ grid_old = grid
    /\ draw_args = << >>
    /\ draw_raised = FALSE
    /\ draw_done = FALSE
    /\ TargetIdle
    /\ HeadIdle
    /\ TopkIdle

\* one call draw_truncate_gaussian(grid, (x, y), h_radius, w_radius, k)
DrawCall ==
    /\ ~draw_done
    /\ \E x \in (-Margin)..(Width(grid) - 1 + Margin),
          y \in (-Margin)..(Height(grid) - 1 + Margin),
          hr \in 0..MaxRadius, wr \in 0..MaxRadius, amp \in 1..MaxK :
            LET res == draw_truncate_gaussian(grid, <<x, y>>, hr, wr, amp)
            IN  /\ grid' = res.heatmap
                /\ draw_raised' = res.raised
                /\ draw_args' = <<x, y, hr, wr, amp>>
    /\ grid_old' = grid
    /\ draw_done' = TRUE
    /\ UNCHANGED << tgVars, headVars, topkVars >>

NextGauss == DrawCall

SpecGauss == InitGauss /\ [][NextGauss]_vars

\* the kernel value at the offset (dy, dx) from the center, for the radii
KernelAt(hr, wr, dy, dx) ==
    gaussian_2d(2 * hr + 1, 2 * wr + 1, 2 * wr + 1, 2 * hr + 1)[dy + hr][dx + wr]

\* C9: a call of draw_truncate_gaussian raises nothing, keeps the grid's
\* shape, changes no cell farther than the radii from the center, sets every
\* grid cell (r, c) within the radii to max(old, k * kernel(r - y, c - x)),
\* and decreases no cell; with no grid cell within the radii the grid is
\* unchanged.
C9_DrawClippedMax ==
    draw_done =>
        LET x == draw_args[1]
            y == draw_args[2]
            hr == draw_args[3]
            wr == draw_args[4]
            amp == draw_args[5]
        IN  /\ ~draw_raised
            /\ DOMAIN grid = DOMAIN grid_old
            /\ \A r \in DOMAIN grid :
                /\ DOMAIN grid[r] = DOMAIN grid_old[r]
                /\ \A c \in DOMAIN grid[r] :
                    /\ grid[r][c] >= grid_old[r][c]
                    /\ IF Abs(r - y) <= hr /\ Abs(c - x) <= wr
                       THEN grid[r][c] =
                              Max(grid_old[r][c], amp * KernelAt(hr, wr, r - y, c - x))
                       ELSE grid[r][c] = grid_old[r][c]

\* C9 witness: a call centered outside the grid, whose kernel still reaches
\* into it, has raised a cell.
C9_Witness ==
    /\ draw_done
    /\ draw_args[1] < 0
    /\ draw_args[2] >= Height(grid)
    /\ \E r \in DOMAIN grid : \E c \in DOMAIN grid[r] : grid[r][c] > grid_old[r][c]


\* --------------------------------------------------- loss and decoder
Batch == 2           \* images per batch
MaxTopk == 3         \* max_per_img in 1..MaxTopk
MaxCalls == 3        \* forward, loss and get_bboxes calls per behaviour
ScoreThrPct == 1     \* score_thr = 0.01

\* feature-grid shapes <<H, W>> forward may produce
FeatShapes == { <<1, 1>>, <<1, 3>>, <<2, 2>> }
\* logits, in units: the logit of the cell of linear index i is the
\* (i mod 3)-th of the pattern (sigmoid(-6) is below the score threshold)
LogitPatterns == { <<-6, -6, -6>>, <<0, 0, 0>>, <<2, -6, 0>>, <<-3, 2, 2>> }

Tensor4(nb, nc, nh, nw, f(_, _, _, _)) ==
    [b \in 0..(nb - 1) |-> [c \in 0..(nc - 1) |->
        [r \in 0..(nh - 1) |-> [col \in 0..(nw - 1) |-> f(b, c, r, col)]]]]
LinIdx(nc, nh, nw, b, c, r, col) == ((b * nc + c) * nh + r) * nw + col

\* forward (lines 197-200): hm, the raw logits, and wh >= 0; every wh value
\* is different
ForwardHm(pattern, shape) ==
    LET f(b, c, r, col) ==
            pattern[(LinIdx(NumFg, shape[1], shape[2], b, c, r, col) % 3) + 1] * Scale
    IN  Tensor4(Batch, NumFg, shape[1], shape[2], f)
ForwardWh(agnostic, shape) ==
    LET f(b, p, r, col) ==
            LinIdx(WhPlanes(agnostic), shape[1], shape[2], b, p, r, col) + 1
    IN  Tensor4(Batch, WhPlanes(agnostic), shape[1], shape[2], f)

\* a tensor held as its stored values: every element is computed once
Stored(t) == IF t = t THEN t ELSE t

\* sigmoid in fixed point
Sigmoid(v) ==
    IF v >= 0 THEN (Scale * Scale) \div (Scale + ExpNeg(v))
    ELSE (Scale * ExpNeg(-v)) \div (Scale + ExpNeg(-v))
\* t.sigmoid_(): what the tensor's storage holds afterwards
SigmoidInPlace(t) ==
    Stored([b \in DOMAIN t |-> [c \in DOMAIN t[b] |-> [r \in DOMAIN t[b][c] |->
        [col \in DOMAIN t[b][c][r] |-> Sigmoid(t[b][c][r][col])]]]])

\* simple_nms on one plane: a cell keeps its score if it is the maximum of
\* its 3 x 3 neighbourhood, else it is 0
simple_nms(plane) ==
    Stored([r \in DOMAIN plane |-> [c \in DOMAIN plane[r] |->
        IF \A r2 \in DOMAIN plane : \A c2 \in DOMAIN plane[r] :
                (Abs(r2 - r) <= 1 /\ Abs(c2 - c) <= 1) => plane[r2][c2] <= plane[r][c]
        THEN plane[r][c] ELSE 0]])

\* torch.topk(vals, n): the indices of the n largest values, largest first;
\* equal values in index order ("low") or reverse index order ("high")
TopkBefore(vals, ties, i, j) ==
    \/ vals[i] > vals[j]
    \/ vals[i] = vals[j] /\ (IF ties = "low" THEN i < j ELSE i > j)
TopkRank(vals, ties, i) ==
    Cardinality({ j \in DOMAIN vals : TopkBefore(vals, ties, j, i) })
torch_topk(vals, n, ties) ==
    Stored([p \in 0..(n - 1) |-> CHOOSE i \in DOMAIN vals : TopkRank(vals, ties, i) = p])

\* scores.view(batch, cat, -1) for one image (line 279)
FlatScores(scores) ==
    Stored([c \in DOMAIN scores |->
        [i \in 0..(Height(scores[c]) * Width(scores[c]) - 1) |->
            scores[c][i \div Width(scores[c])][i % Width(scores[c])]]])
\* mutant of TopkPerClass: only the best cell of every class is a candidate
TopkPerClassBestOnly(flat, topk, ties) ==
    Stored([c \in DOMAIN flat |-> [q \in 0..(topk - 1) |-> torch_topk(flat[c], 1, ties)[0]]])
\* line 279: torch.topk of every class plane
TopkPerClass(flat, topk, ties) ==
    Stored([c \in DOMAIN flat |-> torch_topk(flat[c], topk, ties)])
\* line 279, topk_scores viewed as one row of cat * topk candidates (line 286)
topk_scores(flat, inds, topk) ==
    Stored([q \in 0..(Cardinality(DOMAIN flat) * topk - 1) |->
        flat[q \div topk][inds[q \div topk][q % topk]]])
\* lines 281-294: the candidates picked by topk_ind, with their class, cell
\* index and cell coordinates
TopkGather(cand, inds, topk_ind, topk, height, width) ==
    Stored([j \in 0..(topk - 1) |->
        [score |-> cand[topk_ind[j]],
         ind |-> inds[topk_ind[j] \div topk][topk_ind[j] % topk] % (height * width),
         cls |-> topk_ind[j] \div topk,
         y |-> TruncDiv(inds[topk_ind[j] \div topk][topk_ind[j] % topk] % (height * width),
                        width),
         x |-> (inds[topk_ind[j] \div topk][topk_ind[j] % topk] % (height * width))
                    % width]])
TopkOfFlat(flat, inds, cand, topk, height, width, ties) ==
    TopkGather(cand, inds, torch_topk(cand, topk, ties), topk, height, width)
TopkOfInds(flat, inds, topk, height, width, ties) ==
    TopkOfFlat(flat, inds, topk_scores(flat, inds, topk), topk, height, width, ties)

\* _topk(scores, topk) for one image of the batch (lines 275-294); scores is
\* [class][row][col]
_topk(scores, topk, ties) ==
    TopkOfInds(FlatScores(scores), TopkPerClass(FlatScores(scores), topk, ties),
               topk, Height(scores[0]), Width(scores[0]), ties)

\* line 246: scores_per_img > score_thr
ScoreKept(score) == score * 100 > ScoreThrPct * Scale
\* lines 246-249: the candidates j, j+1, ..., n-1 that are kept, in order
RECURSIVE KeepFrom(_, _, _)
KeepFrom(f, n, j) ==
    IF j >= n THEN << >>
    ELSE (IF ScoreKept(f[j].score) THEN << f[j] >> ELSE << >>) \o KeepFrom(f, n, j + 1)

\* mutant of Detections: the regression values are always read from planes
\* 0..3, whatever the class
DetectionsFirstSlice(top, wh, agnostic, cfg) ==
    Stored([j \in DOMAIN top |->
        [bbox |-> << top[j].x * DownRatio - wh[0][top[j].y][top[j].x],
                     top[j].y * DownRatio - wh[1][top[j].y][top[j].x],
                     top[j].x * DownRatio + wh[2][top[j].y][top[j].x],
                     top[j].y * DownRatio + wh[3][top[j].y][top[j].x] >>,
         div |-> IF cfg.rescale THEN cfg.scale_factor ELSE 1,
         score |-> top[j].score,
         label |-> top[j].cls]])

\* lines 219-244: the candidate detections of one image; a box is bbox / div
Detections(top, wh, agnostic, cfg) ==
    Stored([j \in DOMAIN top |->
        [bbox |-> << top[j].x * DownRatio
                        - wh[(IF agnostic THEN 0 ELSE 4 * top[j].cls)][top[j].y][top[j].x],
                     top[j].y * DownRatio
                        - wh[(IF agnostic THEN 0 ELSE 4 * top[j].cls) + 1][top[j].y][top[j].x],
                     top[j].x * DownRatio
                        + wh[(IF agnostic THEN 0 ELSE 4 * top[j].cls) + 2][top[j].y][top[j].x],
                     top[j].y * DownRatio
                        + wh[(IF agnostic THEN 0 ELSE 4 * top[j].cls) + 3][top[j].y][top[j].x] >>,
         div |-> IF cfg.rescale THEN cfg.scale_factor ELSE 1,
         score |-> top[j].score,
         label |-> top[j].cls]])
\* line 214: simple_nms of every class plane of one image
NmsHeat(hm) == Stored([c \in DOMAIN hm |-> simple_nms(hm[c])])

\* get_bboxes after line 210, on the sigmoid scores (lines 214-259): whether
\* torch.topk raised (k larger than the H * W values of a plane), and the
\* detections of every image
get_bboxes(hm, wh, agnostic, cfg, ties) ==
    IF cfg.max_per_img > Height(hm[0][0]) * Width(hm[0][0])
    THEN [raised |-> TRUE, result_list |-> << >>]
    ELSE [raised |-> FALSE,
          result_list |-> Stored([b \in DOMAIN hm |->
              KeepFrom(Detections(_topk(NmsHeat(hm[b]), cfg.max_per_img, ties),
                                  wh[b], agnostic, cfg),
                       cfg.max_per_img, 0)])]


\* TTFLoss.__call__, lines 510-517: the location grid of an H x W map
BaseLocGrid(height, width) ==
    [none |-> FALSE,
     shift_x |-> [r \in 0..(height - 1) |-> [c \in 0..(width - 1) |-> c * DownRatio]],
     shift_y |-> [r \in 0..(height - 1) |-> [c \in 0..(width - 1) |-> r * DownRatio]]]
\* line 510: the grid is built only while self.base_loc is None
CachedBaseLoc(cached, height, width) ==
    IF cached.none THEN BaseLocGrid(height, width) ELSE cached

\* two sizes of one dimension broadcast together
Broadcastable(n, m) == n = m \/ n = 1 \/ m = 1
\* lines 520-521: pred_boxes[b][r][c], base_loc broadcast against pred_wh
PredBoxes(loc, wh) ==
    LET lh == Height(loc.shift_x)
        lw == Width(loc.shift_x)
        wh_h == Height(wh[0][0])
        wh_w == Width(wh[0][0])
        ix(n, i) == IF n = 1 THEN 0 ELSE i
    IN  [b \in DOMAIN wh |-> [r \in 0..(Max(lh, wh_h) - 1) |->
            [c \in 0..(Max(lw, wh_w) - 1) |->
                << loc.shift_x[ix(lh, r)][ix(lw, c)] - wh[b][0][ix(wh_h, r)][ix(wh_w, c)],
                   loc.shift_y[ix(lh, r)][ix(lw, c)] - wh[b][1][ix(wh_h, r)][ix(wh_w, c)],
                   loc.shift_x[ix(lh, r)][ix(lw, c)] + wh[b][2][ix(wh_h, r)][ix(wh_w, c)],
                   loc.shift_y[ix(lh, r)][ix(lw, c)] + wh[b][3][ix(wh_h, r)][ix(wh_w, c)]
                >>]]]

TestCfgs == [max_per_img : 1..MaxTopk, rescale : BOOLEAN, scale_factor : {2}]

\* a TTFHead is built (base_loc is None) and forward has produced predictions
InitHead ==
    /\ head_wh_agnostic \in BOOLEAN
    /\ test_cfg \in TestCfgs
    /\ topk_ties \in {"low", "high"}
    /\ logit_pattern \in LogitPatterns
    /\ feat_shape \in FeatShapes
    /\ pred_hm = ForwardHm(logit_pattern, feat_shape)
    /\ pred_wh = ForwardWh(head_wh_agnostic, feat_shape)
    /\ base_loc = NoBaseLoc
    /\ loss_out = NoLossOut
    /\ result_list = << >>
    /\ get_raised = FALSE
    /\ last_op = "forward"
    /\ calls = 0
    /\ TargetIdle
    /\ GaussIdle
    /\ TopkIdle

\* forward (lines 180-200) gives the caller new prediction tensors
Forward ==
    /\ calls < MaxCalls
    /\ last_op # "forward"
    /\ \E shape \in FeatShapes :
        /\ feat_shape' = shape
        /\ pred_hm' = ForwardHm(logit_pattern, shape)
        /\ pred_wh' = ForwardWh(head_wh_agnostic, shape)
    /\ last_op' = "forward"
    /\ calls' = calls + 1
    /\ UNCHANGED << head_wh_agnostic, test_cfg, topk_ties, logit_pattern,
                    base_loc, loss_out, result_list, get_raised >>
    /\ UNCHANGED << tgVars, gaussVars, topkVars >>

\* TTFLoss.__call__(pred_hm, pred_wh, ...), lines 503-526, on the caller's
\* tensors; the loss values are not modelled
LossCall ==
    /\ calls < MaxCalls
    /\ LET H == Height(pred_hm[0][0])
           W == Width(pred_hm[0][0])
           loc == CachedBaseLoc(base_loc, H, W)
           ok == /\ Broadcastable(Height(loc.shift_x), H)
                 /\ Broadcastable(Width(loc.shift_x), W)
       IN  /\ pred_hm' = SigmoidInPlace(pred_hm)
           /\ base_loc' = loc
           /\ loss_out' = IF ok THEN [raised |-> FALSE, pred_boxes |-> PredBoxes(loc, pred_wh)]
                          ELSE [raised |-> TRUE, pred_boxes |-> << >>]
    /\ last_op' = "loss"
    /\ calls' = calls + 1
    /\ UNCHANGED << head_wh_agnostic, test_cfg, topk_ties, logit_pattern,
                    feat_shape, pred_wh, result_list, get_raised >>
    /\ UNCHANGED << tgVars, gaussVars, topkVars >>

\* TTFHead.get_bboxes(pred_heatmap, pred_wh, img_metas, cfg, rescale), lines
\* 209-259, on the caller's tensors
GetBboxes ==
    /\ calls < MaxCalls
    /\ LET sig == SigmoidInPlace(pred_hm)
           res == get_bboxes(sig, pred_wh, head_wh_agnostic, test_cfg, topk_ties)
       IN  /\ pred_hm' = sig
           /\ get_raised' = res.raised
           /\ result_list' = res.result_list
    /\ last_op' = "get_bboxes"
    /\ calls' = calls + 1
    /\ UNCHANGED << head_wh_agnostic, test_cfg, topk_ties, logit_pattern,
                    feat_shape, pred_wh, base_loc, loss_out >>
    /\ UNCHANGED << tgVars, gaussVars, topkVars >>

NextHead == Forward \/ LossCall \/ GetBboxes

SpecHead == InitHead /\ [][NextHead]_vars

\* C5: after every TTFLoss.__call__, the location grid the call used is the
\* grid of that call's (H, W): x = col * down_ratio and y = row * down_ratio
\* over H rows and W columns.
C5_BaseLocIsGridOfCall ==
    last_op = "loss" =>
        base_loc = BaseLocGrid(Height(pred_hm[0][0]), Width(pred_hm[0][0]))

\* the (class, cell) pairs of one image whose peak-suppressed score passes
\* the score threshold
TotalPositiveCells(heat) ==
    Cardinality({ t \in (DOMAIN heat) \X (DOMAIN heat[0]) \X (DOMAIN heat[0][0]) :
                    ScoreKept(heat[t[1]][t[2]][t[3]]) })

\* C6: get_bboxes with top-K value K returns, for every image, at least
\* min(K, totalPositiveCells) detections, in non-increasing score order
\* (after the call pred_hm holds the scores the call decoded).
C6_TopkReturnsMinKPositive ==
    last_op = "get_bboxes" =>
        /\ ~get_raised
        /\ DOMAIN result_list = DOMAIN pred_hm
        /\ \A b \in DOMAIN pred_hm :
            /\ Len(result_list[b]) >=
                    Min(test_cfg.max_per_img, TotalPositiveCells(NmsHeat(pred_hm[b])))
            /\ \A i \in 1..(Len(result_list[b]) - 1) :
                    result_list[b][i].score >= result_list[b][i + 1].score

\* C10: TTFLoss.__call__ and get_bboxes leave the prediction tensors they
\* are given as forward produced them, and get_bboxes returns what it returns
\* on fresh copies of them.
C10_CallsLeaveInputsUnchanged ==
    last_op \in {"loss", "get_bboxes"} =>
        /\ pred_hm = ForwardHm(logit_pattern, feat_shape)
        /\ pred_wh = ForwardWh(head_wh_agnostic, feat_shape)
        /\ (last_op = "get_bboxes" /\ ~get_raised) =>
                result_list =
                    get_bboxes(SigmoidInPlace(ForwardHm(logit_pattern, feat_shape)),
                               ForwardWh(head_wh_agnostic, feat_shape),
                               head_wh_agnostic, test_cfg, topk_ties).result_list

\* the detection d of image b is the one decoded at cell (row, col) of class c
DecodedAt(d, b, c, row, col) ==
    LET first == IF head_wh_agnostic THEN 0 ELSE 4 * c
    IN  /\ d.label = c
        /\ d.score = NmsHeat(pred_hm[b])[c][row][col]
        /\ d.bbox = << col * DownRatio - pred_wh[b][first][row][col],
                       row * DownRatio - pred_wh[b][first + 1][row][col],
                       col * DownRatio + pred_wh[b][first + 2][row][col],
                       row * DownRatio + pred_wh[b][first + 3][row][col] >>

\* C11: every detection get_bboxes returns for image b has, for some class c
\* and cell (row, col), label c, the peak-suppressed sigmoid score at
\* [b, c, row, col], and the box (col*down_ratio - l, row*down_ratio - t,
\* col*down_ratio + r, row*down_ratio + bt) with l, t, r, bt the regression
\* values at that cell from planes 4c..4c+3 (per class) or 0..3 (agnostic).
C11_DetectionDecodedAtItsCell ==
    (last_op = "get_bboxes" /\ ~get_raised) =>
        \A b \in DOMAIN result_list : \A n \in 1..Len(result_list[b]) :
            \E c \in DOMAIN pred_hm[b] : \E row \in DOMAIN pred_hm[b][c] :
                \E col \in DOMAIN pred_hm[b][c][row] :
                    DecodedAt(result_list[b][n], b, c, row, col)

\* C11 witness: a per-class decoder has returned a detection of class 1 from
\* a cell that is not in row 0 and not in column 0.
C11_Witness ==
    /\ last_op = "get_bboxes"
    /\ ~get_raised
    /\ ~head_wh_agnostic
    /\ \E b \in DOMAIN result_list : \E n \in 1..Len(result_list[b]) :
        \E row \in DOMAIN pred_hm[b][1] : \E col \in DOMAIN pred_hm[b][1][row] :
            /\ row > 0
            /\ col > 0
            /\ DecodedAt(result_list[b][n], b, 1, row, col)

\* ------------------------------------------------------ _topk on its own
PatternLen == 6      \* the scores of a map repeat with this period
MaxScore == 2        \* scores are in 0..MaxScore

\* score maps [class][row][col]: the score of the cell of linear index i is
\* the (i mod PatternLen)-th of a pattern
ScoreMap(pattern, shape) ==
    Stored([c \in 0..(NumFg - 1) |-> [r \in 0..(shape[1] - 1) |->
        [col \in 0..(shape[2] - 1) |->
            pattern[(LinIdx(NumFg, shape[1], shape[2], 0, c, r, col) % PatternLen) + 1]]]])

\* _topk is called with a score map and topk
InitTopk ==
    /\ \E pattern \in [1..PatternLen -> 0..MaxScore] : \E shape \in FeatShapes :
            tk_scores = ScoreMap(pattern, shape)
    /\ tk_topk \in 1..MaxTopk
    /\ tk_raised = FALSE
    /\ tk_out = << >>
    /\ tk_done = FALSE
    /\ TargetIdle
    /\ GaussIdle
    /\ HeadIdle

\* lines 275-294: torch.topk raises for topk > H * W, else the candidates
TopkCall ==
    /\ ~tk_done
    /\ \E ties \in {"low", "high"} :
        IF tk_topk > Height(tk_scores[0]) * Width(tk_scores[0])
        THEN tk_raised' = TRUE /\ tk_out' = << >>
        ELSE tk_raised' = FALSE /\ tk_out' = _topk(tk_scores, tk_topk, ties)
    /\ tk_done' = TRUE
    /\ UNCHANGED << tk_scores, tk_topk >>
    /\ UNCHANGED << tgVars, gaussVars, headVars >>

NextTopk == TopkCall

SpecTopk == InitTopk /\ [][NextTopk]_vars

\* a single top-K over all (class, cell) pairs of the score map: the scores
GlobalTopkScores(scores, topk) ==
    LET height == Height(scores[0])
        width == Width(scores[0])
        all == Stored([i \in 0..(Cardinality(DOMAIN scores) * height * width - 1) |->
                    scores[i \div (height * width)]
                          [(i % (height * width)) \div width][i % width]])
    IN  Stored([j \in 0..(topk - 1) |-> all[torch_topk(all, topk, "low")[j]]])
\* the multiset of the values of f
ScoreBag(f) ==
    [v \in { f[j] : j \in DOMAIN f } |-> Cardinality({ j \in DOMAIN f : f[j] = v })]

\* C12: for K <= H*W the K scores _topk returns are, as a multiset, those of
\* a single global top-K over all (class, cell) pairs, and every returned
\* (class, row, col) is a position of the score map holding the returned
\* score.
C12_TwoStageIsGlobalTopk ==
    (tk_done /\ tk_topk <= Height(tk_scores[0]) * Width(tk_scores[0])) =>
        /\ ~tk_raised
        /\ DOMAIN tk_out = 0..(tk_topk - 1)
        /\ ScoreBag([j \in DOMAIN tk_out |-> tk_out[j].score])
                = ScoreBag(GlobalTopkScores(tk_scores, tk_topk))
        /\ \A j \in DOMAIN tk_out :
            /\ tk_out[j].cls \in DOMAIN tk_scores
            /\ tk_out[j].y \in DOMAIN tk_scores[0]
            /\ tk_out[j].x \in DOMAIN tk_scores[0][0]
            /\ tk_scores[tk_out[j].cls][tk_out[j].y][tk_out[j].x] = tk_out[j].score

\* C12 witness: on a map of more than one row and column, _topk has returned
\* two candidates of one class, both above the best score of another class,
\* and a candidate outside row 0 and column 0.
C12_Witness ==
    /\ tk_done
    /\ ~tk_raised
    /\ Height(tk_scores[0]) > 1
    /\ Width(tk_scores[0]) > 1
    /\ \E i \in DOMAIN tk_out : \E j \in DOMAIN tk_out :
        /\ i # j
        /\ tk_out[i].cls = tk_out[j].cls
        /\ \E c \in DOMAIN tk_scores :
            /\ c # tk_out[i].cls
            /\ \A r \in DOMAIN tk_scores[c] : \A col \in DOMAIN tk_scores[c][r] :
                /\ tk_scores[c][r][col] < tk_out[i].score
                /\ tk_scores[c][r][col] < tk_out[j].score
    /\ \E j \in DOMAIN tk_out : tk_out[j].y > 0 /\ tk_out[j].x > 0 /\ tk_out[j].score > 0

=============================================================================
